---- MODULE Spec2Model ----
(***************************************************************************)
(* The ReduceLROnPlateau scheduler component of the autoPyTorch pipeline   *)
(* (pipeline/components/setup/lr_scheduler/ReduceLROnPlateau.py).          *)
(*                                                                         *)
(* One component object `self` is constructed and then driven by an        *)
(* arbitrary sequence of fit / transform / get_properties /                *)
(* get_hyperparameter_search_space calls.                                  *)
(*                                                                         *)
(* Python values are records carrying their type.  Numbers are kept in     *)
(* hundredths (field h), so 0.01 is h = 1, 0.9 is h = 90 and 10 is         *)
(* h = 1000; an int and a float of the same magnitude are different        *)
(* values, as they are in Python.                                          *)
(***************************************************************************)
EXTENDS Integers, Sequences, FiniteSets, TLC

VARIABLES
    self,         \* the component: mode, factor, patience, random_state, scheduler
    args,         \* the arguments the constructor was called with
    call,         \* the most recent call made on the component
    ret,          \* its outcome: the exception raised (or None) and the value returned
    created,      \* how many torch schedulers have been constructed so far
    wrapped       \* the optimizers passed to the fit calls that returned normally,
                  \* oldest first

vars == <<self, args, call, ret, created, wrapped>>

\* how many fit calls have returned normally
successes == Len(wrapped)

----------------------------------------------------------------------------
(* Bounds of the exploration *)

\* at most MaxFits fit calls return normally (fit calls that raise are not
\* bounded)
MaxFits == 2

\* arrays passed as X and y have at most MaxLen elements
MaxLen == 1

----------------------------------------------------------------------------
(* Python values *)

None == [type |-> "NoneType"]

PyInt(n) == [type |-> "int", h |-> n * 100]

PyFloat(hundredths) == [type |-> "float", h |-> hundredths]

\* float(v): the same magnitude, as a float
float(v) == [type |-> "float", h |-> v.h]

\* int(v): truncation toward zero, as an int
int(v) ==
    [type |-> "int",
     h    |-> IF v.h >= 0 THEN (v.h \div 100) * 100
                          ELSE 0 - (((0 - v.h) \div 100) * 100)]

Optimizer(name) == [type |-> "Optimizer", name |-> name]

Exception(type, msg) == [type |-> type, msg |-> msg]

EmptyDict == [k \in {} |-> None]

----------------------------------------------------------------------------
(* The inputs the environment may supply *)

Optimizers == {Optimizer("O1"), Optimizer("O2")}

\* mode as given to the constructor: the two legal values and an illegal one
Modes == {"min", "max", "avg"}

\* factor as given to the constructor: floats of the search space (0.01, 0.5,
\* 0.9), and the ints 0 and 1, which float() turns into 0.0 and 1.0
Factors == {PyFloat(1), PyFloat(50), PyFloat(90), PyInt(0), PyInt(1)}

\* patience as given to the constructor: ints of the search space (5, 10, 20)
\* and the float 10.5, which int() truncates to 10
Patiences == {PyInt(5), PyInt(10), PyInt(20), PyFloat(1050)}

RandomStates == {None, [type |-> "RandomState", seed |-> 1]}

\* arrays: sequences over {0, 1} of length 0..MaxLen
Arrays == UNION {[1..n -> {0, 1}] : n \in 0..MaxLen}

\* the label arrays that go with features X: one label per row, all rows of
\* the same class
Labels(X) == {[i \in 1..Len(X) |-> c] : c \in {0, 1}}

\* **fit_params: the 'optimizer' entry is absent, an optimizer, or None;
\* an unrelated entry may be present as well
FitParams ==
    LET opt   == {EmptyDict} \cup
                 {[k \in {"optimizer"} |-> v] : v \in Optimizers \cup {None}}
        other == {EmptyDict, [k \in {"budget"} |-> PyInt(1)]}
    IN  {o @@ b : o \in opt, b \in other}

\* dataset_properties: None, an empty dict, a non-empty dict
DatasetProperties ==
    {None,
     [type |-> "dict", items |-> EmptyDict],
     [type |-> "dict", items |-> [k \in {"task_type"} |-> "tabular"]]}

\* the values of the declared search space
InDeclaredRanges(mode, factor, patience) ==
    /\ mode \in {"min", "max"}
    /\ factor.type = "float" /\ factor.h >= 1 /\ factor.h <= 90
    /\ patience.type = "int" /\ patience.h >= 500 /\ patience.h <= 2000

----------------------------------------------------------------------------
(* The component *)

\* a reference to the component itself, as returned by fit
SelfRef == [type |-> "ReduceLROnPlateau", ref |-> "self"]

NoOptimizerError ==
    Exception("ValueError", "Cannot use scheduler without an optimizer to wrap")

\* __init__ with a slip: factor and patience are stored in each other's field
init_Swapped(mode, factor, patience, random_state) ==
    [mode         |-> mode,
     factor       |-> patience,
     patience     |-> factor,
     random_state |-> random_state,
     scheduler    |-> None]

\* ReduceLROnPlateau.__init__
__init__(mode, factor, patience, random_state) ==
    [mode         |-> mode,
     factor       |-> factor,
     patience     |-> patience,
     random_state |-> random_state,
     scheduler    |-> None]

\* torch.optim.lr_scheduler.ReduceLROnPlateau(optimizer=, mode=, factor=,
\* patience=): the constructor rejects a factor >= 1.0, an object that is no
\* Optimizer and an unknown mode, in that order; otherwise it yields a new
\* scheduler object (identified by id) holding what it was given.
TorchReduceLROnPlateau(id, optimizer, mode, factor, patience) ==
    IF factor.h >= 100
    THEN [raised |-> Exception("ValueError", "Factor should be < 1.0."),
          value  |-> None]
    ELSE IF optimizer.type # "Optimizer"
    THEN [raised |-> Exception("TypeError", "is not an Optimizer"),
          value  |-> None]
    ELSE IF mode \notin {"min", "max"}
    THEN [raised |-> Exception("ValueError", "mode is unknown!"),
          value  |-> None]
    ELSE [raised |-> None,
          value  |-> [type      |-> "torch.ReduceLROnPlateau",
                      id        |-> id,
                      optimizer |-> optimizer,
                      mode      |-> mode,
                      factor    |-> factor,
                      patience  |-> patience]]

----------------------------------------------------------------------------
(* Faulty variants of fit, each differing from fit by one slip *)

\* the check is on the truth of the entry, not its presence:
\* if not fit_params.get('optimizer')
fit_TruthyCheck(X, y, fit_params) ==
    IF \/ "optimizer" \notin DOMAIN fit_params
       \/ fit_params["optimizer"] = None
    THEN [self |-> self, raised |-> NoOptimizerError, value |-> None, built |-> 0]
    ELSE LET s == TorchReduceLROnPlateau(created + 1, fit_params["optimizer"],
                      self.mode, float(self.factor), int(self.patience))
         IN  IF s.raised # None
             THEN [self |-> self, raised |-> s.raised, value |-> None, built |-> 0]
             ELSE [self   |-> [self EXCEPT !.scheduler = s.value],
                   raised |-> None, value |-> SelfRef, built |-> 1]

\* self.scheduler = None is executed on entry, before the check
fit_ResetFirst(X, y, fit_params) ==
    LET cleared == [self EXCEPT !.scheduler = None]
    IN  IF "optimizer" \notin DOMAIN fit_params
        THEN [self |-> cleared, raised |-> NoOptimizerError, value |-> None,
              built |-> 0]
        ELSE LET s == TorchReduceLROnPlateau(created + 1, fit_params["optimizer"],
                          self.mode, float(self.factor), int(self.patience))
             IN  IF s.raised # None
                 THEN [self |-> cleared, raised |-> s.raised, value |-> None,
                       built |-> 0]
                 ELSE [self   |-> [self EXCEPT !.scheduler = s.value],
                       raised |-> None, value |-> SelfRef, built |-> 1]

\* the scheduler is built into a local name and never stored in self.scheduler
fit_NoStore(X, y, fit_params) ==
    IF "optimizer" \notin DOMAIN fit_params
    THEN [self |-> self, raised |-> NoOptimizerError, value |-> None, built |-> 0]
    ELSE LET s == TorchReduceLROnPlateau(created + 1, fit_params["optimizer"],
                      self.mode, float(self.factor), int(self.patience))
         IN  IF s.raised # None
             THEN [self |-> self, raised |-> s.raised, value |-> None, built |-> 0]
             ELSE [self |-> self, raised |-> None, value |-> SelfRef, built |-> 1]

\* the coerced values are written back: self.factor = float(self.factor),
\* self.patience = int(self.patience)
fit_StoreCoerced(X, y, fit_params) ==
    IF "optimizer" \notin DOMAIN fit_params
    THEN [self |-> self, raised |-> NoOptimizerError, value |-> None, built |-> 0]
    ELSE LET s == TorchReduceLROnPlateau(created + 1, fit_params["optimizer"],
                      self.mode, float(self.factor), int(self.patience))
         IN  IF s.raised # None
             THEN [self |-> self, raised |-> s.raised, value |-> None, built |-> 0]
             ELSE [self   |-> [self EXCEPT !.scheduler = s.value,
                                           !.factor    = float(self.factor),
                                           !.patience  = int(self.patience)],
                   raised |-> None, value |-> SelfRef, built |-> 1]

\* a scheduler already held is kept: if self.scheduler is not None: return self
fit_KeepExisting(X, y, fit_params) ==
    IF "optimizer" \notin DOMAIN fit_params
    THEN [self |-> self, raised |-> NoOptimizerError, value |-> None, built |-> 0]
    ELSE IF self.scheduler # None
    THEN [self |-> self, raised |-> None, value |-> SelfRef, built |-> 0]
    ELSE LET s == TorchReduceLROnPlateau(created + 1, fit_params["optimizer"],
                      self.mode, float(self.factor), int(self.patience))
         IN  IF s.raised # None
             THEN [self |-> self, raised |-> s.raised, value |-> None, built |-> 0]
             ELSE [self   |-> [self EXCEPT !.scheduler = s.value],
                   raised |-> None, value |-> SelfRef, built |-> 1]

\* a new scheduler is built on each fit, but around the optimizer of the
\* scheduler already held, when there is one
fit_ReuseOptimizer(X, y, fit_params) ==
    IF "optimizer" \notin DOMAIN fit_params
    THEN [self |-> self, raised |-> NoOptimizerError, value |-> None, built |-> 0]
    ELSE LET optimizer == IF self.scheduler # None
                          THEN self.scheduler.optimizer
                          ELSE fit_params["optimizer"]
             s == TorchReduceLROnPlateau(created + 1, optimizer,
                      self.mode, float(self.factor), int(self.patience))
         IN  IF s.raised # None
             THEN [self |-> self, raised |-> s.raised, value |-> None, built |-> 0]
             ELSE [self   |-> [self EXCEPT !.scheduler = s.value],
                   raised |-> None, value |-> SelfRef, built |-> 1]

----------------------------------------------------------------------------

\* ReduceLROnPlateau.fit(self, X, y, **fit_params).  The outcome: the component
\* after the call, the exception raised (None if none), the value returned and
\* the number of schedulers constructed.
fit(X, y, fit_params) ==
    IF "optimizer" \notin DOMAIN fit_params
    THEN [self   |-> self,
          raised |-> NoOptimizerError,
          value  |-> None,
          built  |-> 0]
    ELSE LET s == TorchReduceLROnPlateau(created + 1,
                                         fit_params["optimizer"],
                                         self.mode,
                                         float(self.factor),
                                         int(self.patience))
         IN  IF s.raised # None
             THEN [self   |-> self,
                   raised |-> s.raised,
                   value  |-> None,
                   built  |-> 0]
             ELSE [self   |-> [self EXCEPT !.scheduler = s.value],
                   raised |-> None,
                   value  |-> SelfRef,
                   built  |-> 1]

\* transform with a slip: the first row is dropped (return X[1:])
transform_DropFirst(X) == SubSeq(X, 2, Len(X))

\* ReduceLROnPlateau.transform(self, X)
transform(X) == X

\* get_properties with a slip: the names depend on the dataset properties
get_properties_ByDataset(dataset_properties) ==
    IF dataset_properties = None
    THEN [shortname |-> "CosineAnnealingWarmRestarts",
          name      |-> "Cosine Annealing WarmRestarts"]
    ELSE [shortname |-> "ReduceLROnPlateau",
          name      |-> "ReduceLROnPlateau"]

\* ReduceLROnPlateau.get_properties(dataset_properties)
get_properties(dataset_properties) ==
    [shortname |-> "CosineAnnealingWarmRestarts",
     name      |-> "Cosine Annealing WarmRestarts"]

\* get_hyperparameter_search_space with a slip: the default of factor is given
\* as 0.5 instead of 0.1
get_hyperparameter_search_space_OtherDefaults(dataset_properties) ==
    LET mode     == [type    |-> "CategoricalHyperparameter",
                     name    |-> "mode",
                     choices |-> <<"min", "max">>]
        patience == [type    |-> "UniformIntegerHyperparameter",
                     name    |-> "patience",
                     lower   |-> PyInt(5),
                     upper   |-> PyInt(20),
                     default_value |-> PyInt(10)]
        factor   == [type    |-> "UniformFloatHyperparameter",
                     name    |-> "factor",
                     lower   |-> PyFloat(1),
                     upper   |-> PyFloat(90),
                     default_value |-> PyFloat(50)]
        hps      == <<mode, patience, factor>>
    IN  [n \in {hps[i].name : i \in 1..Len(hps)} |->
            CHOOSE hp \in {hps[i] : i \in 1..Len(hps)} : hp.name = n]

\* ReduceLROnPlateau.get_hyperparameter_search_space(dataset_properties):
\* the configuration space, as the hyperparameters it holds by name
get_hyperparameter_search_space(dataset_properties) ==
    LET mode     == [type    |-> "CategoricalHyperparameter",
                     name    |-> "mode",
                     choices |-> <<"min", "max">>]
        patience == [type    |-> "UniformIntegerHyperparameter",
                     name    |-> "patience",
                     lower   |-> PyInt(5),
                     upper   |-> PyInt(20),
                     default_value |-> PyInt(10)]
        factor   == [type    |-> "UniformFloatHyperparameter",
                     name    |-> "factor",
                     lower   |-> PyFloat(1),
                     upper   |-> PyFloat(90),
                     default_value |-> PyFloat(10)]
        hps      == <<mode, patience, factor>>
    IN  [n \in {hps[i].name : i \in 1..Len(hps)} |->
            CHOOSE hp \in {hps[i] : i \in 1..Len(hps)} : hp.name = n]

----------------------------------------------------------------------------
(* The state machine *)

Init ==
    /\ \E mode \in Modes, factor \in Factors,
          patience \in Patiences, random_state \in RandomStates :
          /\ self = __init__(mode, factor, patience, random_state)
          /\ args = [mode |-> mode, factor |-> factor,
                     patience |-> patience, random_state |-> random_state]
    /\ call = [op |-> "__init__"]
    /\ ret = [raised |-> None, value |-> None]
    /\ created = 0
    /\ wrapped = <<>>

Fit ==
    \E X \in Arrays, fit_params \in FitParams : \E y \in Labels(X) :
          LET r == fit(X, y, fit_params)
          IN  /\ r.raised = None => successes < MaxFits /\ created < MaxFits
              /\ self' = r.self
              /\ call' = [op |-> "fit", X |-> X, y |-> y,
                          fit_params |-> fit_params]
              /\ ret' = [raised |-> r.raised, value |-> r.value]
              /\ created' = created + r.built
              /\ wrapped' = IF r.raised = None
                             THEN Append(wrapped, fit_params["optimizer"])
                             ELSE wrapped
              /\ UNCHANGED args

Transform ==
    /\ \E X \in Arrays :
          /\ call' = [op |-> "transform", X |-> X]
          /\ ret' = [raised |-> None, value |-> transform(X)]
    /\ UNCHANGED <<self, args, created, wrapped>>

GetProperties ==
    /\ \E dataset_properties \in DatasetProperties :
          /\ call' = [op |-> "get_properties",
                      dataset_properties |-> dataset_properties]
          /\ ret' = [raised |-> None,
                     value  |-> get_properties(dataset_properties)]
    /\ UNCHANGED <<self, args, created, wrapped>>

GetHyperparameterSearchSpace ==
    /\ \E dataset_properties \in DatasetProperties :
          /\ call' = [op |-> "get_hyperparameter_search_space",
                      dataset_properties |-> dataset_properties]
          /\ ret' = [raised |-> None,
                     value  |-> get_hyperparameter_search_space(dataset_properties)]
    /\ UNCHANGED <<self, args, created, wrapped>>

Next ==
    \/ Fit
    \/ Transform
    \/ GetProperties
    \/ GetHyperparameterSearchSpace

Spec == Init /\ [][Next]_vars

----------------------------------------------------------------------------
(* Properties *)

\* C1: fit raises ValueError('Cannot use scheduler without an optimizer to
\* wrap') exactly when fit_params has no 'optimizer' entry, whatever X, y, the
\* stored mode, factor and patience, the other entries and the state of the
\* component are.
C1_OptimizerIsSoleGate ==
    call.op = "fit" =>
        (ret.raised = NoOptimizerError <=>
            "optimizer" \notin DOMAIN call.fit_params)

\* C1 witness: on a component that is already fit, a fit without 'optimizer'
\* but with another entry raised the error
C1_Witness ==
    /\ call.op = "fit"
    /\ DOMAIN call.fit_params = {"budget"}
    /\ ret.raised = NoOptimizerError
    /\ self.scheduler # None

\* C2: when the component was constructed with (mode, factor, patience) of the
\* declared ranges, a fit given an optimizer O returns normally, returns the
\* component itself, and leaves a scheduler in self.scheduler that wraps O.
C2_FitBindsOptimizer ==
    (/\ call.op = "fit"
     /\ InDeclaredRanges(args.mode, args.factor, args.patience)
     /\ "optimizer" \in DOMAIN call.fit_params
     /\ call.fit_params["optimizer"] \in Optimizers)
    => /\ ret.raised = None
       /\ ret.value = SelfRef
       /\ self.scheduler # None
       /\ self.scheduler.optimizer = call.fit_params["optimizer"]

\* C2 witness: mode = "min", factor = 0.5, patience = 10, fit with an
\* optimizer and empty X and y has returned the component
C2_Witness ==
    /\ call.op = "fit"
    /\ args.mode = "min" /\ args.factor = PyFloat(50) /\ args.patience = PyInt(10)
    /\ call.X = <<>> /\ call.y = <<>>
    /\ "optimizer" \in DOMAIN call.fit_params
    /\ call.fit_params["optimizer"] = Optimizer("O1")
    /\ ret.value = SelfRef
    /\ self.scheduler # None

\* C3: a fit that raises the missing-optimizer error has done nothing: the
\* component (scheduler handle, mode, factor, patience, random_state) is
\* exactly as before the call and no scheduler was constructed; so a component
\* that no fit has completed on is still as the constructor left it, its
\* scheduler handle absent.
C3_FailedFitDoesNothing ==
    /\ []((/\ call.op = "fit"
           /\ ret.raised = NoOptimizerError
           /\ successes = 0)
          => /\ self = __init__(args.mode, args.factor, args.patience,
                                 args.random_state)
             /\ created = 0)
    /\ [][(call'.op = "fit" /\ ret'.raised = NoOptimizerError)
          => (self' = self /\ created' = created /\ wrapped' = wrapped)]_vars

\* C3 witness: the first call on a component was a fit with an empty context,
\* which raised the error and left the handle absent
C3_Witness ==
    /\ call.op = "fit"
    /\ call.fit_params = EmptyDict
    /\ ret.raised = NoOptimizerError
    /\ self.scheduler = None
    /\ created = 0

\* C4: the scheduler handle is absent as long as no fit has returned normally,
\* present once one has, and never becomes absent again.
C4_HandlePresentIffFitted ==
    /\ [](successes = 0 <=> self.scheduler = None)
    /\ [][self.scheduler # None => self'.scheduler # None]_vars

\* C4 witness: a fit failed after a fit had succeeded, and the handle is
\* still present
C4_Witness ==
    /\ call.op = "fit"
    /\ ret.raised # None
    /\ successes > 0
    /\ self.scheduler # None

\* C5: mode, factor, patience and random_state are those given to the
\* constructor in every state; the scheduler is given float(factor) and
\* int(patience), and the stored fields keep the values as given.
C5_ConfigurationImmutable ==
    /\ self.mode = args.mode
    /\ self.factor = args.factor
    /\ self.patience = args.patience
    /\ self.random_state = args.random_state
    /\ self.scheduler # None =>
          /\ self.scheduler.mode = args.mode
          /\ self.scheduler.factor = float(args.factor)
          /\ self.scheduler.patience = int(args.patience)

\* C5 witness: a fit has succeeded on a component whose factor is an int and
\* whose patience is a float, so that both coercions change the value
C5_Witness ==
    /\ self.scheduler # None
    /\ args.factor.type = "int"
    /\ args.patience = PyFloat(1050)
    /\ self.scheduler.factor # self.factor
    /\ self.scheduler.patience = PyInt(10)
    /\ self.patience = PyFloat(1050)

\* C6: transform returns its argument, raises nothing and changes nothing of
\* the component, before and after fit, for empty and non-empty arrays.
C6_TransformIsIdentity ==
    /\ [](call.op = "transform" =>
             (ret.raised = None /\ ret.value = call.X))
    /\ [][call'.op = "transform" =>
             (self' = self /\ created' = created)]_vars

\* C6 witness: transform of a non-empty array on a fit component
C6_Witness ==
    /\ call.op = "transform"
    /\ call.X # <<>>
    /\ ret.value = call.X
    /\ self.scheduler # None

\* C7: get_hyperparameter_search_space returns exactly three hyperparameters:
\* mode, categorical over {"min", "max"}; patience, integer in [5, 20] with
\* default 10; factor, float in [0.01, 0.9] with default 0.1 - whatever
\* dataset_properties and the state of the component are - and changes nothing.
C7_SearchSpaceFixed ==
    /\ [](call.op = "get_hyperparameter_search_space" =>
            /\ ret.raised = None
            /\ DOMAIN ret.value = {"mode", "patience", "factor"}
            /\ ret.value["mode"].type = "CategoricalHyperparameter"
            /\ {ret.value["mode"].choices[i] :
                   i \in DOMAIN ret.value["mode"].choices} = {"min", "max"}
            /\ ret.value["patience"].type = "UniformIntegerHyperparameter"
            /\ ret.value["patience"].lower.h = 500
            /\ ret.value["patience"].upper.h = 2000
            /\ ret.value["patience"].default_value.h = 1000
            /\ ret.value["factor"].type = "UniformFloatHyperparameter"
            /\ ret.value["factor"].lower.h = 1
            /\ ret.value["factor"].upper.h = 90
            /\ ret.value["factor"].default_value.h = 10)
    /\ [][call'.op = "get_hyperparameter_search_space" =>
             (self' = self /\ created' = created)]_vars

\* C7 witness: the search space was asked for with a non-empty
\* dataset_properties on a fit component
C7_Witness ==
    /\ call.op = "get_hyperparameter_search_space"
    /\ call.dataset_properties # None
    /\ call.dataset_properties.items # EmptyDict
    /\ self.scheduler # None

\* C8: get_properties returns the same pair of shortname and name for every
\* configuration, every dataset_properties and every state of the component,
\* and changes nothing.
C8_PropertiesFixed ==
    /\ [](call.op = "get_properties" =>
            /\ ret.raised = None
            /\ ret.value = [shortname |-> "CosineAnnealingWarmRestarts",
                            name      |-> "Cosine Annealing WarmRestarts"])
    /\ [][call'.op = "get_properties" =>
             (self' = self /\ created' = created)]_vars

\* C8 witness: get_properties was called with a dataset_properties dict on a
\* fit component in max mode
C8_Witness ==
    /\ call.op = "get_properties"
    /\ call.dataset_properties # None
    /\ self.mode = "max"
    /\ self.scheduler # None

\* C9 as stated: at most one scheduler is ever constructed for a component.
C9_AtMostOneScheduler == created <= 1

\* C9, amended: the component leaves the unfit state at the first fit that
\* returns normally; every fit that returns normally constructs exactly one
\* new scheduler, which replaces the one held, and a fit that raises
\* constructs none: the schedulers constructed are as many as the fits that
\* returned normally, and the component holds the latest of them.
C9_OneSchedulerPerFit ==
    /\ created = successes
    /\ (self.scheduler = None <=> created = 0)
    /\ self.scheduler # None => self.scheduler.id = created

\* C9 witness: a second fit has constructed a second scheduler, which the
\* component holds
C9_Witness ==
    /\ created = 2
    /\ self.scheduler # None
    /\ self.scheduler.id = 2

\* C10: the scheduler handle, when present, wraps the optimizer of the most
\* recent fit that returned normally; it is absent only when there was none.
C10_WrapsLatestOptimizer ==
    IF self.scheduler = None
    THEN wrapped = <<>>
    ELSE /\ wrapped # <<>>
         /\ self.scheduler.optimizer = wrapped[Len(wrapped)]

\* C10 witness: two fits with different optimizers returned normally, then a
\* fit without optimizer raised; the handle wraps the second optimizer
C10_Witness ==
    /\ Len(wrapped) = 2
    /\ wrapped[1] # wrapped[2]
    /\ call.op = "fit"
    /\ ret.raised = NoOptimizerError
    /\ self.scheduler # None
    /\ self.scheduler.optimizer = wrapped[2]

====
